---- MODULE Spec2Model ----
(***************************************************************************)
(* Royal Liquor point-of-sale helper: barcode validation, the rate limiter *)
(* and the lookup pipeline of src/optimized-flask-app.py, and the cooldown *)
(* guarded lookup of src/app.py.                                           *)
(*                                                                         *)
(* A barcode string is a sequence of one-character strings.  The token     *)
(* "sup2" stands for a character such as U+00B2 for which str.isdigit()    *)
(* is true and int() raises ValueError.                                    *)
(***************************************************************************)
EXTENDS Integers, Sequences, FiniteSets, TLC

(* ------------------------------------------------------------------ *)
(* Bounds of the model                                                 *)
(* ------------------------------------------------------------------ *)
MaxShort == 3        \* longest string of the free-alphabet input family
MaxRun == 14         \* longest all-digit run of the length family

(* ------------------------------------------------------------------ *)
(* Characters                                                          *)
(* ------------------------------------------------------------------ *)
DecDigits == {"0", "1", "2", "3", "4", "5", "6", "7", "8", "9"}

\* characters matched by the regular expression class [\s-]
Strippable == {" ", "\t", "-"}

\* characters for which str.isdigit() is true
IsDigitChars == DecDigits \cup {"sup2"}

\* int(d) for a decimal digit character
DigitVal(c) ==
    CASE c = "0" -> 0 [] c = "1" -> 1 [] c = "2" -> 2 [] c = "3" -> 3
      [] c = "4" -> 4 [] c = "5" -> 5 [] c = "6" -> 6 [] c = "7" -> 7
      [] c = "8" -> 8 [] c = "9" -> 9

\* the character of a digit value (used to build inputs)
DigitChar(n) == CHOOSE c \in DecDigits : DigitVal(c) = n

\* re.sub(r'[\s-]', '', barcode)
RECURSIVE Strip(_)
Strip(s) ==
    IF s = <<>> THEN <<>>
    ELSE IF Head(s) \in Strippable THEN Strip(Tail(s))
         ELSE <<Head(s)>> \o Strip(Tail(s))

\* str.isdigit(): non-empty and every character a digit character
IsDigitStr(s) == Len(s) > 0 /\ \A i \in 1..Len(s) : s[i] \in IsDigitChars

\* [int(d) for d in upc] raises when a character is no decimal digit
IntRaises(s) == \E i \in 1..Len(s) : s[i] \notin DecDigits

\* sum(digits[start::-2]) for a negative start: the elements at the 1-based
\* positions hi, hi-2, hi-4, ... down to 1, where hi = Len + start + 1
RECURSIVE SumStepDown(_, _)
SumStepDown(s, hi) ==
    IF hi < 1 THEN 0 ELSE DigitVal(s[hi]) + SumStepDown(s, hi - 2)

\* sum(digits[-2::-2])
OddSum(s) == SumStepDown(s, Len(s) - 1)

\* sum(digits[-3::-2])
EvenSum(s) == SumStepDown(s, Len(s) - 2)

\* checksum on the digits, as both files compute it
Checksum(s) == (10 - ((3 * OddSum(s) + EvenSum(s)) % 10)) % 10

\* a plausible slip: the two slices exchanged
verify_checksum_swapped(upc) ==
    IF IntRaises(upc) THEN FALSE
    ELSE ((10 - ((3 * EvenSum(upc) + OddSum(upc)) % 10)) % 10)
            = DigitVal(upc[Len(upc)])

\* UPCValidator._verify_checksum
verify_checksum(upc) ==
    IF IntRaises(upc) THEN FALSE
    ELSE Checksum(upc) = DigitVal(upc[Len(upc)])

ValidLengths == {8, 12, 13}

MsgEmpty == "Barcode cannot be empty"
MsgFormat == "Invalid UPC format: must contain only digits"
MsgLength == "Invalid UPC length: must be 8, 12, 13 digits"
MsgChecksum == "Invalid UPC: checksum verification failed"
MsgChecksumError == "Error validating UPC checksum"

Rejected(m) == [ok |-> FALSE, msg |-> m, barcode |-> <<>>]
Accepted(b) == [ok |-> TRUE, msg |-> "", barcode |-> b]

\* a plausible slip: the length test applied to the raw string
validate_rawlen(barcode) ==
    IF barcode = <<>> THEN Rejected(MsgEmpty)
    ELSE LET cleaned == Strip(barcode) IN
         IF ~IsDigitStr(cleaned) THEN Rejected(MsgFormat)
         ELSE IF Len(barcode) \notin ValidLengths THEN Rejected(MsgLength)
         ELSE IF Len(cleaned) = 12 /\ ~verify_checksum(cleaned)
              THEN Rejected(MsgChecksum)
         ELSE Accepted(cleaned)

\* UPCValidator.validate
validate(barcode) ==
    IF barcode = <<>> THEN Rejected(MsgEmpty)
    ELSE LET cleaned == Strip(barcode) IN
         IF ~IsDigitStr(cleaned) THEN Rejected(MsgFormat)
         ELSE IF Len(cleaned) \notin ValidLengths THEN Rejected(MsgLength)
         ELSE IF Len(cleaned) = 12 /\ ~verify_checksum(cleaned)
              THEN Rejected(MsgChecksum)
         ELSE Accepted(cleaned)

\* validate_upc of app.py
validate_upc(barcode) ==
    IF barcode = <<>> THEN Rejected(MsgEmpty)
    ELSE LET cleaned == Strip(barcode) IN
         IF ~IsDigitStr(cleaned) THEN Rejected(MsgFormat)
         ELSE IF Len(cleaned) \notin ValidLengths THEN Rejected(MsgLength)
         ELSE IF Len(cleaned) = 12
              THEN IF IntRaises(cleaned) THEN Rejected(MsgChecksumError)
                   ELSE IF Checksum(cleaned) # DigitVal(cleaned[Len(cleaned)])
                        THEN Rejected(MsgChecksum)
                   ELSE Accepted(cleaned)
         ELSE Accepted(cleaned)

(* ------------------------------------------------------------------ *)
(* Inputs of the validator                                             *)
(* ------------------------------------------------------------------ *)
\* the eleven leading digits of the example 012345678905
Base11 == <<"0", "1", "2", "3", "4", "5", "6", "7", "8", "9", "0">>

\* twelve-digit strings: every first, second and last digit
Family12 ==
    { <<DigitChar(a), DigitChar(b)>> \o SubSeq(Base11, 3, 11) \o <<DigitChar(c)>> :
        a \in 0..9, b \in 0..9, c \in 0..9 }

\* twelve digits of which one is the isdigit-only character
Family12Sup ==
    { <<"sup2">> \o SubSeq(Base11, 2, 11) \o <<DigitChar(c)>> : c \in 0..9 }

ShortAlphabet == {"1", " ", "-", "\t", "a", "sup2"}

RECURSIVE SeqsUpTo(_, _)
SeqsUpTo(S, n) ==
    IF n = 0 THEN {<<>>}
    ELSE LET shorter == SeqsUpTo(S, n - 1) IN
         shorter \cup { <<c>> \o t : c \in S, t \in { u \in shorter : Len(u) = n - 1 } }

FamilyShort == SeqsUpTo(ShortAlphabet, MaxShort)

Run(c, n) == [i \in 1..n |-> c]

\* all-digit runs of every length, bare and with separators around and inside
FamilyLength ==
    UNION { { Run("7", n),
              <<" ">> \o Run("7", n) \o <<"-">>,
              Run("7", n \div 2) \o <<"-", " ">> \o Run("7", n - (n \div 2)),
              Run("7", n) \o <<"a">>,
              <<"sup2">> \o Run("7", n) } : n \in 0..MaxRun }

\* the worked examples: "12 345-678" and a hyphenated 012345678905
FamilyExamples ==
    { <<"1", "2", " ", "3", "4", "5", "-", "6", "7", "8">>,
      <<"0", "-">> \o SubSeq(Base11, 2, 6) \o <<"-">> \o SubSeq(Base11, 7, 11) \o <<"-", "5">> }

ValidatorInputs ==
    Family12 \cup Family12Sup \cup FamilyShort \cup FamilyLength \cup FamilyExamples

(* ------------------------------------------------------------------ *)
(* State                                                               *)
(* ------------------------------------------------------------------ *)
VARIABLES
    vraw,      \* the raw string handed to the validators
    vpc,       \* "in": not yet validated, "out": validated
    vopt,      \* result of UPCValidator.validate
    vapp       \* result of validate_upc

vvars == <<vraw, vpc, vopt, vapp>>

NoResult == [ok |-> FALSE, msg |-> "", barcode |-> <<>>]

(* ------------------------------------------------------------------ *)
(* src/optimized-flask-app.py: time, rate limiter, caches, lookup      *)
(* ------------------------------------------------------------------ *)
TicksPerSec == 2     \* clock ticks per second (time.time() is fractional)
MaxClock == 2        \* last tick of the clock of the lookup service
RateLimit == 1       \* rate_limit of the lookup service's RATE_LIMITER
PeriodSecs == 1      \* period (seconds) of the lookup service's RATE_LIMITER
CacheMaxSize == 2    \* maxsize of the modelled PRODUCT_CACHE
TtlTicks == 2        \* ttl of the modelled INVENTORY_CACHE, in ticks
TestMaxClock == 5    \* last tick of the clock when the limiter is run alone
TestRateLimit == 2   \* rate_limit of the limiter run alone
TestPeriodSecs == 2  \* period (seconds) of the limiter run alone
MaxAdmits == 3       \* admissions recorded when the limiter is run alone

Workers == {"w1", "w2"}                 \* request threads
NoOwner == "none"

\* int(x) of a time difference of d ticks: truncation toward zero of d / TicksPerSec
IntSecs(d) == IF d >= 0 THEN d \div TicksPerSec ELSE -((-d) \div TicksPerSec)

\* [req for req in self.requests if now - req < self.period]
RECURSIVE PruneOld(_, _, _)
PruneOld(reqs, now, per) ==
    IF reqs = <<>> THEN <<>>
    ELSE IF now - Head(reqs) < per
         THEN <<Head(reqs)>> \o PruneOld(Tail(reqs), now, per)
         ELSE PruneOld(Tail(reqs), now, per)

\* the body of RateLimiter.is_allowed under the lock, for the value of now
\* read before the lock was taken and a limiter of rate limit rl and a period
\* of per ticks: the pruned list, the verdict, the wait in seconds
is_allowed(reqs, now, rl, per) ==
    LET kept == PruneOld(reqs, now, per) IN
    IF Len(kept) < rl
    THEN [allowed |-> TRUE, requests |-> Append(kept, now), wait |-> 0]
    ELSE [allowed |-> FALSE, requests |-> kept,
          wait |-> IntSecs(kept[1] + per - now)]

(* ---- PRODUCT_CACHE: cachetools.LRUCache, least recently used first ---- *)
CacheKeys(c) == { c[i].key : i \in 1..Len(c) }
CacheIndex(c, k) == CHOOSE i \in 1..Len(c) : c[i].key = k
CacheValue(c, k) == c[CacheIndex(c, k)].val
CacheWithout(c, k) == SelectSeq(c, LAMBDA e : e.key # k)

\* a slip: a read leaves the order as it is
CacheTouch_stay(c, k) == c

\* LRUCache.__getitem__: the entry becomes the most recently used
CacheTouch(c, k) == Append(CacheWithout(c, k), c[CacheIndex(c, k)])

\* LRUCache.__setitem__: evict least recently used entries while full
CacheSet(c, k, v) ==
    IF k \in CacheKeys(c) THEN Append(CacheWithout(c, k), [key |-> k, val |-> v])
    ELSE IF Len(c) + 1 > CacheMaxSize
         THEN Append(SubSeq(c, Len(c) - CacheMaxSize + 2, Len(c)), [key |-> k, val |-> v])
         ELSE Append(c, [key |-> k, val |-> v])

\* the key that left the cache when c became c2, else the one before
NoKey == <<>>
Evicted(c, c2, last) ==
    IF CacheKeys(c) \ CacheKeys(c2) = {} THEN last
    ELSE CHOOSE k \in CacheKeys(c) \ CacheKeys(c2) : TRUE

(* ---- INVENTORY_CACHE: cachetools.TTLCache filled by load_inventory ---- *)
LocalBarcode == <<"1", "2", "3", "4", "5", "6", "7", "8">>
ExternalBarcode == <<"8", "7", "6", "5", "4", "3", "2", "1">>

\* the catalog file: one row
CatalogRows == { [barcode |-> LocalBarcode, name |-> "Royal Vodka", price |-> 1250] }

\* InventoryManager.load_inventory at start-up (time 0)
LoadedInventory ==
    [ b \in { r.barcode : r \in CatalogRows } |->
        LET r == CHOOSE x \in CatalogRows : x.barcode = b IN
        [name |-> r.name, price |-> r.price, expires |-> 0 + TtlTicks] ]

\* TTLCache.get: an expired entry is missing
InventoryHas(inv, k, t) == k \in DOMAIN inv /\ t < inv[k].expires

\* barcodes for which the external service returns items
ExternalItems == {ExternalBarcode}

\* the raw path parameters of GET /lookup/<barcode>
LookupInputs ==
    { LocalBarcode,
      <<"1", "2", " ", "3", "4", "5", "-", "6", "7", "8">>,
      ExternalBarcode,
      <<"8", "7", "6", "5", "-", "4", "3", "2", "1">>,
      <<"1", "2", "a">> }

\* what the external service can answer to one call
FetchOutcomes == {"json", "http429", "exception", "malformed"}
RetryAfterValues == {5, 9}    \* Retry-After absent (default 5) or sent

(* ---- response bodies ---- *)
NoBody == [kind |-> "none", found |-> FALSE, external |-> FALSE, barcode |-> <<>>, retry_after |-> 0]
Body(k, f, e, b, r) == [kind |-> k, found |-> f, external |-> e, barcode |-> b, retry_after |-> r]
NoResp == [status |-> 0, body |-> NoBody]
Resp(st, bd) == [status |-> st, body |-> bd]

VARIABLES
    clock,            \* the time, in ticks
    rate_limit,       \* RATE_LIMITER.rate_limit
    period,           \* RATE_LIMITER.period, in seconds
    requests,         \* RATE_LIMITER.requests
    lock,             \* owner of RATE_LIMITER.lock, NoOwner when free
    PRODUCT_CACHE,    \* sequence of [key, val], least recently used first
    INVENTORY_CACHE,  \* barcode -> [name, price, expires]
    pc,               \* position of each worker in lookup_product
    barcode,          \* the raw path parameter of each worker's request
    result,           \* the validated barcode
    now,              \* the time is_allowed read before taking the lock
    resp,             \* the response of a finished request
    admitted,         \* is_allowed returned True in this request
    calls,            \* external calls issued by this request
    admitLog,         \* timestamps appended by admissions, in order of admission
    lastEvicted       \* the key PRODUCT_CACHE evicted last, NoKey when none

ovars == <<clock, rate_limit, period, requests, lock, PRODUCT_CACHE, INVENTORY_CACHE, pc, barcode,
           result, now, resp, admitted, calls, admitLog, lastEvicted>>


\* the state of src/app.py (its operations follow the lookup service below)
VARIABLES
    atime,        \* the time, in seconds
    RATE_LIMIT,   \* the module's RATE_LIMIT dictionary
    searchCache,  \* lru_cache of cached_upcitemdb_search: barcode -> result
    apc,          \* position of each worker in lookup_product / _search_upcitemdb
    abarcode,     \* the raw path parameter
    aresult,      \* validation_result
    acur,         \* current_time read at the start of _search_upcitemdb
    aretries,     \* retries
    awake,        \* end of the running time.sleep
    aresp,        \* the response of a finished request
    acall,        \* start of the latest network call of the worker's request
    aoutcome,     \* how the latest network call of the worker's request ended
    ancalls,      \* network calls issued by the worker's request
    nmalformed    \* responses of an unexpected shape received so far

avars == <<atime, RATE_LIMIT, searchCache, apc, abarcode, aresult, acur,
           aretries, awake, aresp, acall, aoutcome, ancalls, nmalformed>>

\* the cart and the orders of src/app.py, and the price conversion
VARIABLES
    CART_ITEMS,       \* barcode -> quantity
    PURCHASE_ORDERS,  \* order number -> order
    orderLog,         \* the orders create_order has answered with, in order
    price_str,        \* the text handed to PriceConverter.to_decimal
    price_pc,         \* "in": not yet converted, "out": converted
    price_out,        \* what to_decimal returned or raised
    order_pc,         \* where a create_order request in steps stands
    order_built,      \* the order that request has built
    title,            \* the title of the external item, as words
    title_pc,         \* "in": not yet formatted, "out": formatted
    title_out         \* what each application made of the title

cartvars == <<CART_ITEMS, PURCHASE_ORDERS, orderLog, order_pc, order_built>>
pricevars == <<price_str, price_pc, price_out>>
titlevars == <<title, title_pc, title_out>>

xvars == <<cartvars, pricevars, titlevars>>

\* to_decimal has not returned yet
NoPrice == [raised |-> FALSE, coefficient |-> 0, exponent |-> 0]

\* RATE_LIMITER.period in ticks
Period == period * TicksPerSec

OInit ==
    /\ clock = 0
    /\ requests = <<>>
    /\ lock = NoOwner
    /\ PRODUCT_CACHE = <<>>
    /\ INVENTORY_CACHE = LoadedInventory
    /\ pc = [p \in Workers |-> "idle"]
    /\ barcode = [p \in Workers |-> <<>>]
    /\ result = [p \in Workers |-> <<>>]
    /\ now = [p \in Workers |-> 0]
    /\ resp = [p \in Workers |-> NoResp]
    /\ admitted = [p \in Workers |-> FALSE]
    /\ calls = [p \in Workers |-> 0]
    /\ admitLog = <<>>
    /\ lastEvicted = NoKey

\* time passes
Tick ==
    /\ clock < MaxClock
    /\ clock' = clock + 1
    /\ UNCHANGED <<vvars, avars, xvars, rate_limit, period, requests, lock, PRODUCT_CACHE, INVENTORY_CACHE, lastEvicted, pc, barcode,
                   result, now, resp, admitted, calls, admitLog>>

\* a request GET /lookup/<b> reaches worker p
StartLookup(p, b) ==
    /\ pc[p] = "idle"
    /\ barcode' = [barcode EXCEPT ![p] = b]
    /\ pc' = [pc EXCEPT ![p] = "cache_check"]
    /\ UNCHANGED <<vvars, avars, xvars, rate_limit, period, clock, requests, lock, PRODUCT_CACHE, INVENTORY_CACHE, lastEvicted,
                   result, now, resp, admitted, calls, admitLog>>

\* `if barcode in PRODUCT_CACHE`, and on a miss UPCValidator.validate
CacheCheck(p) ==
    /\ pc[p] = "cache_check"
    /\ IF barcode[p] \in CacheKeys(PRODUCT_CACHE)
       THEN /\ pc' = [pc EXCEPT ![p] = "cache_get"]
            /\ UNCHANGED <<result, resp>>
       ELSE LET v == validate(barcode[p]) IN
            IF v.ok
            THEN /\ result' = [result EXCEPT ![p] = v.barcode]
                 /\ pc' = [pc EXCEPT ![p] = "rl_now"]
                 /\ UNCHANGED resp
            ELSE /\ resp' = [resp EXCEPT ![p] =
                        Resp(400, Body("invalid_upc", FALSE, FALSE, <<>>, 0))]
                 /\ pc' = [pc EXCEPT ![p] = "done"]
                 /\ UNCHANGED result
    /\ UNCHANGED <<vvars, avars, xvars, rate_limit, period, clock, requests, lock, PRODUCT_CACHE, INVENTORY_CACHE, lastEvicted,
                   barcode, now, admitted, calls, admitLog>>

\* `return jsonify(PRODUCT_CACHE[barcode])`; a KeyError ends in the handler
CacheGet(p) ==
    /\ pc[p] = "cache_get"
    /\ IF barcode[p] \in CacheKeys(PRODUCT_CACHE)
       THEN /\ resp' = [resp EXCEPT ![p] =
                   Resp(200, CacheValue(PRODUCT_CACHE, barcode[p]))]
            /\ PRODUCT_CACHE' = CacheTouch(PRODUCT_CACHE, barcode[p])
       ELSE /\ resp' = [resp EXCEPT ![p] =
                   Resp(500, Body("server_error", FALSE, FALSE, <<>>, 0))]
            /\ UNCHANGED PRODUCT_CACHE
    /\ pc' = [pc EXCEPT ![p] = "done"]
    /\ UNCHANGED <<vvars, avars, xvars, rate_limit, period, clock, requests, lock, INVENTORY_CACHE, lastEvicted, barcode, result,
                   now, admitted, calls, admitLog>>

\* RateLimiter.is_allowed, line 40: `now = time.time()`, before the lock
ReadNow(p) ==
    /\ pc[p] = "rl_now"
    /\ now' = [now EXCEPT ![p] = clock]
    /\ pc' = [pc EXCEPT ![p] = "rl_lock"]
    /\ UNCHANGED <<vvars, avars, xvars, rate_limit, period, clock, requests, lock, PRODUCT_CACHE, INVENTORY_CACHE, lastEvicted,
                   barcode, result, resp, admitted, calls, admitLog>>

\* RateLimiter.is_allowed: `with self.lock`, entry
AcquireLock(p) ==
    /\ pc[p] = "rl_lock"
    /\ lock = NoOwner
    /\ lock' = p
    /\ pc' = [pc EXCEPT ![p] = "rl_body"]
    /\ UNCHANGED <<vvars, avars, xvars, rate_limit, period, clock, requests, PRODUCT_CACHE, INVENTORY_CACHE, lastEvicted, barcode,
                   result, now, resp, admitted, calls, admitLog>>

\* is_allowed's critical section for worker p and what its caller does with
\* the verdict: ownerAfter is the lock's owner once is_allowed has returned,
\* denyEnds tells whether a denial ends the request with the 429 response
RateLimitStep(p, ownerAfter, denyEnds) ==
    /\ pc[p] = "rl_body"
    /\ lock = p
    /\ LET r == is_allowed(requests, now[p], rate_limit, Period) IN
       /\ requests' = r.requests
       /\ lock' = ownerAfter
       /\ now' = [now EXCEPT ![p] = 0]
       /\ IF r.allowed
          THEN /\ admitted' = [admitted EXCEPT ![p] = TRUE]
               /\ pc' = [pc EXCEPT ![p] = "local"]
               /\ UNCHANGED resp
          ELSE /\ UNCHANGED admitted
               /\ IF denyEnds
                  THEN /\ resp' = [resp EXCEPT ![p] =
                              Resp(429, Body("rate_limit", FALSE, FALSE, <<>>, r.wait))]
                       /\ pc' = [pc EXCEPT ![p] = "done"]
                  ELSE /\ pc' = [pc EXCEPT ![p] = "local"]
                       /\ UNCHANGED resp
    /\ UNCHANGED <<vvars, avars, xvars, rate_limit, period, clock, PRODUCT_CACHE, INVENTORY_CACHE, lastEvicted, barcode, result, calls>>

\* a slip: the lock is still held when is_allowed returns
CheckRateLimit_KeepLock(p) == RateLimitStep(p, p, TRUE) /\ UNCHANGED admitLog

\* a slip: the verdict of is_allowed is ignored
CheckRateLimit_IgnoreDenial(p) == RateLimitStep(p, NoOwner, FALSE) /\ UNCHANGED admitLog

\* the body of `with self.lock` in is_allowed and lines 227-233 of lookup_product
CheckRateLimit(p) == RateLimitStep(p, NoOwner, TRUE) /\ UNCHANGED admitLog

\* `product = INVENTORY_CACHE.get(result)`; a hit is answered and cached under
\* the raw path parameter, a miss issues the external call
LocalLookup(p) ==
    /\ pc[p] = "local"
    /\ IF InventoryHas(INVENTORY_CACHE, result[p], clock)
       THEN LET response == Body("local", TRUE, FALSE, result[p], 0) IN
            /\ PRODUCT_CACHE' = CacheSet(PRODUCT_CACHE, barcode[p], response)
            /\ lastEvicted' = Evicted(PRODUCT_CACHE, PRODUCT_CACHE', lastEvicted)
            /\ resp' = [resp EXCEPT ![p] = Resp(200, response)]
            /\ pc' = [pc EXCEPT ![p] = "done"]
            /\ UNCHANGED calls
       ELSE /\ calls' = [calls EXCEPT ![p] = @ + 1]
            /\ pc' = [pc EXCEPT ![p] = "await"]
            /\ UNCHANGED <<PRODUCT_CACHE, lastEvicted, resp>>
    /\ UNCHANGED <<vvars, avars, xvars, rate_limit, period, clock, requests, lock, INVENTORY_CACHE, barcode, result, now,
                   admitted, admitLog>>

\* format_external_product on the decoded payload
format_external_product(upc) ==
    IF upc \in ExternalItems
    THEN Body("external", TRUE, TRUE, upc, 0)
    ELSE Body("not_found", FALSE, FALSE, <<>>, 0)

\* fetch_upc_data returns and lookup_product finishes (lines 249-262), as far
\* as every variable but the catalog pool goes
FetchStep(p, outcome, ra) ==
    /\ pc[p] = "await"
    /\ \/ /\ outcome = "json"
          /\ LET response == format_external_product(result[p]) IN
             /\ PRODUCT_CACHE' = CacheSet(PRODUCT_CACHE, barcode[p], response)
             /\ lastEvicted' = Evicted(PRODUCT_CACHE, PRODUCT_CACHE', lastEvicted)
             /\ resp' = [resp EXCEPT ![p] = Resp(200, response)]
       \/ /\ outcome = "http429"
          /\ resp' = [resp EXCEPT ![p] =
                 Resp(429, Body("rate_limit", FALSE, FALSE, <<>>, ra))]
          /\ UNCHANGED <<PRODUCT_CACHE, lastEvicted>>
       \/ /\ outcome = "exception"
          /\ ra = 5
          /\ resp' = [resp EXCEPT ![p] =
                 Resp(429, Body("error", FALSE, FALSE, <<>>, 0))]
          /\ UNCHANGED <<PRODUCT_CACHE, lastEvicted>>
       \/ /\ outcome = "malformed"
          /\ ra = 5
          /\ resp' = [resp EXCEPT ![p] =
                 Resp(500, Body("server_error", FALSE, FALSE, <<>>, 0))]
          /\ UNCHANGED <<PRODUCT_CACHE, lastEvicted>>
    /\ pc' = [pc EXCEPT ![p] = "done"]
    /\ UNCHANGED <<vvars, avars, xvars, rate_limit, period, clock, requests, lock, barcode, result, now,
                   admitted, calls, admitLog>>

\* a slip: what the service returned is stored in the catalog pool as well
FetchReturn_intoCatalog(p, outcome, ra) ==
    /\ FetchStep(p, outcome, ra)
    /\ INVENTORY_CACHE' =
          IF outcome = "json"
          THEN [b \in DOMAIN INVENTORY_CACHE \cup {result[p]} |->
                  IF b = result[p]
                  THEN [name |-> "external", price |-> 0, expires |-> clock + TtlTicks]
                  ELSE INVENTORY_CACHE[b]]
          ELSE INVENTORY_CACHE

\* lines 249-262 write PRODUCT_CACHE alone
FetchReturn(p, outcome, ra) == FetchStep(p, outcome, ra) /\ UNCHANGED INVENTORY_CACHE

\* the response has been sent; the worker is free again
Finish(p) ==
    /\ pc[p] = "done"
    /\ pc' = [pc EXCEPT ![p] = "idle"]
    /\ barcode' = [barcode EXCEPT ![p] = <<>>]
    /\ result' = [result EXCEPT ![p] = <<>>]
    /\ now' = [now EXCEPT ![p] = 0]
    /\ resp' = [resp EXCEPT ![p] = NoResp]
    /\ admitted' = [admitted EXCEPT ![p] = FALSE]
    /\ calls' = [calls EXCEPT ![p] = 0]
    /\ UNCHANGED <<vvars, avars, xvars, rate_limit, period, clock, requests, lock, PRODUCT_CACHE, INVENTORY_CACHE, lastEvicted,
                   admitLog>>

ONext ==
    \/ Tick
    \/ \E p \in Workers, b \in LookupInputs : StartLookup(p, b)
    \/ \E p \in Workers : CacheCheck(p)
    \/ \E p \in Workers : CacheGet(p)
    \/ \E p \in Workers : ReadNow(p)
    \/ \E p \in Workers : AcquireLock(p)
    \/ \E p \in Workers : CheckRateLimit(p)
    \/ \E p \in Workers : LocalLookup(p)
    \/ \E p \in Workers, o \in FetchOutcomes, ra \in RetryAfterValues : FetchReturn(p, o, ra)
    \/ \E p \in Workers : Finish(p)

(* ------------------------------------------------------------------ *)
(* RateLimiter under concurrent callers of is_allowed                  *)
(* ------------------------------------------------------------------ *)
\* a thread calls RATE_LIMITER.is_allowed()
LimiterCall(p) ==
    /\ pc[p] = "idle"
    /\ Len(admitLog) < MaxAdmits
    /\ pc' = [pc EXCEPT ![p] = "rl_now"]
    /\ UNCHANGED <<vvars, avars, xvars, rate_limit, period, clock, requests, lock, PRODUCT_CACHE, INVENTORY_CACHE, lastEvicted,
                   barcode, result, now, resp, admitted, calls, admitLog>>

\* is_allowed's critical section; an admission is recorded with its timestamp
LimiterCheck(p) ==
    /\ RateLimitStep(p, NoOwner, TRUE)
    /\ admitLog' = IF is_allowed(requests, now[p], rate_limit, Period).allowed
                   THEN Append(admitLog, now[p])
                   ELSE admitLog

\* the caller has its verdict
LimiterReturn(p) ==
    /\ pc[p] \in {"local", "done"}
    /\ pc' = [pc EXCEPT ![p] = "idle"]
    /\ resp' = [resp EXCEPT ![p] = NoResp]
    /\ admitted' = [admitted EXCEPT ![p] = FALSE]
    /\ UNCHANGED <<vvars, avars, xvars, rate_limit, period, clock, requests, lock, PRODUCT_CACHE, INVENTORY_CACHE, lastEvicted,
                   barcode, result, now, calls, admitLog>>

\* time passes for the limiter run alone
LimiterTick ==
    /\ clock < TestMaxClock
    /\ clock' = clock + 1
    /\ UNCHANGED <<vvars, avars, xvars, rate_limit, period, requests, lock, PRODUCT_CACHE,
                   INVENTORY_CACHE, lastEvicted, pc, barcode, result, now, resp, admitted,
                   calls, admitLog>>

LNext ==
    \/ LimiterTick
    \/ \E p \in Workers : LimiterCall(p)
    \/ \E p \in Workers : ReadNow(p)
    \/ \E p \in Workers : AcquireLock(p)
    \/ \E p \in Workers : LimiterCheck(p)
    \/ \E p \in Workers : LimiterReturn(p)

(* ------------------------------------------------------------------ *)
(* src/app.py: RATE_LIMIT, lookup_product, _search_upcitemdb           *)
(* Time is counted in whole seconds here.                              *)
(* ------------------------------------------------------------------ *)
AppMaxClock == 6     \* last second of the modelled clock
MaxMalformed == 1    \* responses of an unexpected shape the service sends
DatetimeMin == -1000     \* datetime.min: further back than any window
CooldownSecs == 2        \* RATE_LIMIT['cooldown']
MaxRetries == 3          \* RATE_LIMIT['max_retries']
DefaultRemaining == 100  \* RATE_LIMIT['requests_remaining'], the header's default
MaxErrors == 5           \* RATE_LIMIT['max_errors']
ErrorResetSecs == 300    \* RATE_LIMIT['error_reset']
HttpTimeoutSecs == 5     \* requests.get(..., timeout=5)
DefaultRetryAfter == 5   \* response.headers.get('Retry-After', 5)
NoTime == -1             \* RATE_LIMIT['reset_time'] is None
AbsentHeader == -1       \* the response carries no Retry-After header

\* INVENTORY = load_inventory(): keyed by the Barcode column
INVENTORY == { r.barcode : r \in CatalogRows }

AppInputs == { LocalBarcode, ExternalBarcode, <<"1", "2", "a">> }

\* what one requests.get can end in: a response with items, without items,
\* with status 429, 400 or 500, a timeout, a transport failure, a payload of
\* an unexpected shape, or rate-limit headers that are no integers
HttpOutcomes == {"items", "noitems", "http429", "http400", "http500",
                 "timeout", "connerror", "malformed", "badheader"}

\* rate-limit headers of a response: "absent", or "exhausted" (no quota
\* left until QuotaResetSecs later); the modelled service sends none
HeaderChoices == {"absent"}
\* Retry-After of a 429 response: absent, or 1
RetryAfterChoices == {AbsentHeader, 1}
QuotaResetSecs == 3      \* x-ratelimit-reset lies this far ahead when sent

\* how a network call ended, with the Retry-After header of its response
Outcome(k, ra) == [kind |-> k, retry_after |-> ra]
NoOutcome == Outcome("none", AbsentHeader)

\* int(response.headers.get('Retry-After', 5))
RetryAfterOf(ra) == IF ra = AbsentHeader THEN DefaultRetryAfter ELSE ra

\* the RATE_LIMIT dictionary (lines 42-52) with the given streak settings
RateLimitDict(last, errors, maxErrors, errorReset) ==
    [last_request |-> last, cooldown |-> CooldownSecs,
     requests_remaining |-> DefaultRemaining, reset_time |-> NoTime,
     error_count |-> errors, max_errors |-> maxErrors, error_reset |-> errorReset]

\* no request is in progress
AWorkersInit ==
    /\ atime = 0
    /\ searchCache = [k \in {} |-> NoBody]
    /\ apc = [p \in Workers |-> "idle"]
    /\ abarcode = [p \in Workers |-> <<>>]
    /\ aresult = [p \in Workers |-> <<>>]
    /\ acur = [p \in Workers |-> 0]
    /\ aretries = [p \in Workers |-> 0]
    /\ awake = [p \in Workers |-> 0]
    /\ aresp = [p \in Workers |-> NoResp]
    /\ acall = [p \in Workers |-> NoTime]
    /\ aoutcome = [p \in Workers |-> NoOutcome]
    /\ ancalls = [p \in Workers |-> 0]
    /\ nmalformed = 0

AInit ==
    /\ AWorkersInit
    /\ RATE_LIMIT = RateLimitDict(DatetimeMin, 0, MaxErrors, ErrorResetSecs)

\* check_rate_limit() at time t: the error count it leaves and its verdict
check_rate_limit(rl, t) ==
    LET errors == IF t - rl.last_request > rl.error_reset THEN 0 ELSE rl.error_count
        streakWait == rl.last_request + rl.error_reset - t
        since == t - rl.last_request
        quotaWait == rl.reset_time - t
    IN  IF errors >= rl.max_errors /\ streakWait > 0
        THEN [error_count |-> errors, allowed |-> FALSE, retry_after |-> streakWait]
        ELSE IF since < rl.cooldown
        THEN [error_count |-> errors, allowed |-> FALSE, retry_after |-> rl.cooldown - since]
        ELSE IF rl.requests_remaining <= 0 /\ rl.reset_time # NoTime /\ quotaWait > 0
        THEN [error_count |-> errors, allowed |-> FALSE, retry_after |-> quotaWait]
        ELSE [error_count |-> errors, allowed |-> TRUE, retry_after |-> 0]

\* the check at the head of _search_upcitemdb (lines 333-351)
search_precheck(rl, t) ==
    LET since == t - rl.last_request
        quotaWait == rl.reset_time - t
    IN  IF since < rl.cooldown
        THEN [allowed |-> FALSE, retry_after |-> rl.cooldown - since]
        ELSE IF rl.requests_remaining <= 0 /\ rl.reset_time # NoTime /\ quotaWait > 0
        THEN [allowed |-> FALSE, retry_after |-> quotaWait]
        ELSE [allowed |-> TRUE, retry_after |-> 0]

\* lookup_product lines 180-189: the response for what the search returned
SearchResponse(r) ==
    IF r.kind \in {"rate_limit"} THEN Resp(429, r)
    ELSE IF r.kind \in {"invalid_upc", "invalid_query", "timeout", "api_error", "max_retries"}
         THEN Resp(400, r)
    ELSE Resp(200, r)

\* the lru_cache of cached_upcitemdb_search
SearchCached(c, k) == k \in DOMAIN c
SearchCacheGet(c, k) == c[k]
SearchCachePut(c, k, v) ==
    [x \in DOMAIN c \cup {k} |-> IF x = k THEN v ELSE c[x]]

\* the variables of the lookups of src/app.py, the clock apart
alookvars == <<RATE_LIMIT, searchCache, apc, abarcode, aresult, acur, aretries,
               awake, aresp, acall, aoutcome, ancalls, nmalformed>>

\* time passes
AppTick ==
    /\ atime < AppMaxClock
    /\ atime' = atime + 1
    /\ UNCHANGED <<vvars, ovars, xvars, alookvars>>

\* GET /lookup/<b> reaches worker p: validate_upc, check_rate_limit and
\* INVENTORY.get (lines 153-175)
\* lookup_product up to the search (lines 151-175) for the path parameter b;
\* invalidLeaves is RATE_LIMIT as a rejected parameter leaves it
AppLookupStep(p, b, invalidLeaves) ==
    /\ apc[p] = "idle"
    /\ LET v == validate_upc(b)
           c == check_rate_limit(RATE_LIMIT, atime)
       IN  IF ~v.ok
           THEN /\ aresp' = [aresp EXCEPT ![p] =
                       Resp(400, Body("invalid_upc", FALSE, FALSE, <<>>, 0))]
                /\ apc' = [apc EXCEPT ![p] = "done"]
                /\ RATE_LIMIT' = invalidLeaves
                /\ UNCHANGED aresult
           ELSE /\ RATE_LIMIT' = [RATE_LIMIT EXCEPT !.error_count = c.error_count]
                /\ aresult' = [aresult EXCEPT ![p] = v.barcode]
                /\ IF ~c.allowed
                   THEN /\ aresp' = [aresp EXCEPT ![p] =
                               Resp(429, Body("rate_limit", FALSE, FALSE, <<>>, c.retry_after))]
                        /\ apc' = [apc EXCEPT ![p] = "done"]
                   ELSE IF v.barcode \in INVENTORY
                   THEN /\ aresp' = [aresp EXCEPT ![p] =
                               Resp(200, Body("local", TRUE, FALSE, v.barcode, 0))]
                        /\ apc' = [apc EXCEPT ![p] = "done"]
                   ELSE /\ apc' = [apc EXCEPT ![p] = "search"]
                        /\ UNCHANGED aresp
    /\ UNCHANGED <<vvars, ovars, xvars, atime, searchCache, acur, aretries, awake,
                   acall, aoutcome, ancalls, nmalformed>>

\* a slip: a rejected parameter is counted as an error
AppLookup_countsInvalid(p, b) ==
    /\ AppLookupStep(p, b, [RATE_LIMIT EXCEPT !.error_count = @ + 1])
    /\ abarcode' = [abarcode EXCEPT ![p] = b]

\* GET /lookup/<b> arrives: the return at lines 154-159 touches nothing
AppLookup(p, b) ==
    /\ AppLookupStep(p, b, RATE_LIMIT)
    /\ abarcode' = [abarcode EXCEPT ![p] = b]

\* cached_upcitemdb_search: a cached result is returned; otherwise
\* _search_upcitemdb starts: current_time is read and the cooldown and the
\* quota are checked (lines 325-353)
AppSearch(p) ==
    /\ apc[p] = "search"
    /\ IF SearchCached(searchCache, aresult[p])
       THEN /\ aresp' = [aresp EXCEPT ![p] =
                   SearchResponse(SearchCacheGet(searchCache, aresult[p]))]
            /\ apc' = [apc EXCEPT ![p] = "done"]
            /\ UNCHANGED <<searchCache, acur, aretries>>
       ELSE LET c == search_precheck(RATE_LIMIT, atime) IN
            IF ~c.allowed
            THEN LET r == Body("rate_limit", FALSE, FALSE, <<>>, c.retry_after) IN
                 /\ searchCache' = SearchCachePut(searchCache, aresult[p], r)
                 /\ aresp' = [aresp EXCEPT ![p] = SearchResponse(r)]
                 /\ apc' = [apc EXCEPT ![p] = "done"]
                 /\ UNCHANGED <<acur, aretries>>
            ELSE /\ acur' = [acur EXCEPT ![p] = atime]
                 /\ aretries' = [aretries EXCEPT ![p] = 0]
                 /\ apc' = [apc EXCEPT ![p] = "attempt"]
                 /\ UNCHANGED <<searchCache, aresp>>
    /\ UNCHANGED <<vvars, ovars, xvars, atime, RATE_LIMIT, abarcode, aresult, awake,
                   acall, aoutcome, ancalls, nmalformed>>

\* requests.get is issued (line 365)
AppRequest(p) ==
    /\ apc[p] = "attempt"
    /\ acall' = [acall EXCEPT ![p] = atime]
    /\ ancalls' = [ancalls EXCEPT ![p] = @ + 1]
    /\ apc' = [apc EXCEPT ![p] = "http"]
    /\ UNCHANGED <<vvars, ovars, xvars, atime, RATE_LIMIT, searchCache, abarcode,
                   aresult, acur, aretries, awake, aresp, aoutcome, nmalformed>>

\* update_rate_limits(response.headers) and line 373
AfterResponse(rl, h, cur, t) ==
    [rl EXCEPT !.requests_remaining = IF h = "exhausted" THEN 0 ELSE DefaultRemaining,
               !.reset_time = IF h = "exhausted" THEN t + QuotaResetSecs ELSE @,
               !.last_request = cur]

\* a slip: the cooldown is left as it was
Cooldown429_keep(rl, ra) == rl

\* lines 376-377: the cooldown becomes the Retry-After of the 429 response
Cooldown429(rl, ra) == [rl EXCEPT !.cooldown = RetryAfterOf(ra)]

\* the result returned to the caller is cached by lru_cache and answered
AppReturn(p, r) ==
    /\ searchCache' = SearchCachePut(searchCache, aresult[p], r)
    /\ aresp' = [aresp EXCEPT ![p] = SearchResponse(r)]
    /\ apc' = [apc EXCEPT ![p] = "done"]

\* a slip: the loop gives up one failed attempt early
GivesUp_early(retries) == retries + 1 >= MaxRetries

\* lines 431-432 and 442-443: after `retries += 1`, `retries < max_retries`
\* is false
GivesUp(retries) == ~(retries < MaxRetries)

\* a failed attempt: retry after time.sleep(2 ** retries), or give up
AppRetry(p, kind) ==
    IF ~GivesUp(aretries[p] + 1)
    THEN /\ aretries' = [aretries EXCEPT ![p] = @ + 1]
         /\ awake' = [awake EXCEPT ![p] = atime + 2 ^ (aretries[p] + 1)]
         /\ apc' = [apc EXCEPT ![p] = "sleep"]
         /\ UNCHANGED <<searchCache, aresp>>
    ELSE /\ aretries' = [aretries EXCEPT ![p] = @ + 1]
         /\ AppReturn(p, Body(kind, FALSE, FALSE, <<>>, 0))
         /\ UNCHANGED awake

\* an exception that is no RequestException leaves the search uncached and
\* reaches the handler of lookup_product (lines 191-197)
AppHandler(p) ==
    /\ aresp' = [aresp EXCEPT ![p] =
           Resp(500, Body("server_error", FALSE, FALSE, <<>>, 0))]
    /\ apc' = [apc EXCEPT ![p] = "done"]
    /\ nmalformed' = nmalformed + 1
    /\ UNCHANGED <<searchCache, aretries, awake>>

\* requests.get returns or raises, and the loop body runs to its end
\* (lines 371-450)
AppResponse(p, outcome, h, ra) ==
    /\ apc[p] = "http"
    /\ outcome = "timeout" => atime >= acall[p] + HttpTimeoutSecs
    /\ outcome # "timeout" => atime <= acall[p] + HttpTimeoutSecs
    /\ outcome \in {"timeout", "connerror"} => h = "absent"
    /\ outcome # "http429" => ra = AbsentHeader
    /\ outcome \in {"malformed", "badheader"} => nmalformed < MaxMalformed
    /\ aoutcome' = [aoutcome EXCEPT ![p] = Outcome(outcome, ra)]
    /\ CASE outcome \in {"timeout", "connerror"} ->
              /\ AppRetry(p, IF outcome = "timeout" THEN "timeout" ELSE "api_error")
              /\ UNCHANGED <<RATE_LIMIT, nmalformed>>
         [] outcome = "http500" ->
              /\ AppRetry(p, "api_error")
              /\ RATE_LIMIT' = AfterResponse(RATE_LIMIT, h, acur[p], atime)
              /\ UNCHANGED nmalformed
         [] outcome = "http429" ->
              /\ RATE_LIMIT' = Cooldown429(AfterResponse(RATE_LIMIT, h, acur[p], atime), ra)
              /\ AppReturn(p, Body("rate_limit", FALSE, FALSE, <<>>, RetryAfterOf(ra)))
              /\ UNCHANGED <<aretries, awake, nmalformed>>
         [] outcome = "http400" ->
              /\ RATE_LIMIT' = AfterResponse(RATE_LIMIT, h, acur[p], atime)
              /\ AppReturn(p, Body("invalid_query", FALSE, FALSE, <<>>, 0))
              /\ UNCHANGED <<aretries, awake, nmalformed>>
         [] outcome = "noitems" ->
              /\ RATE_LIMIT' = AfterResponse(RATE_LIMIT, h, acur[p], atime)
              /\ AppReturn(p, Body("not_found", FALSE, FALSE, <<>>, 0))
              /\ UNCHANGED <<aretries, awake, nmalformed>>
         [] outcome = "items" ->
              /\ RATE_LIMIT' = AfterResponse(RATE_LIMIT, h, acur[p], atime)
              /\ AppReturn(p, Body("external", TRUE, TRUE, aresult[p], 0))
              /\ UNCHANGED <<aretries, awake, nmalformed>>
         [] outcome = "malformed" ->
              \* raised after line 373
              /\ RATE_LIMIT' = [AfterResponse(RATE_LIMIT, h, acur[p], atime)
                                  EXCEPT !.error_count = @ + 1]
              /\ AppHandler(p)
         [] outcome = "badheader" ->
              \* raised by int() in update_rate_limits, before line 373
              /\ RATE_LIMIT' = [RATE_LIMIT EXCEPT !.error_count = @ + 1]
              /\ AppHandler(p)
    /\ UNCHANGED <<vvars, ovars, xvars, atime, abarcode, aresult, acur, acall, ancalls>>

\* time.sleep returns and the loop tests `retries < max_retries`
AppWake(p) ==
    /\ apc[p] = "sleep"
    /\ atime >= awake[p]
    /\ awake' = [awake EXCEPT ![p] = 0]
    /\ apc' = [apc EXCEPT ![p] = "attempt"]
    /\ UNCHANGED <<vvars, ovars, xvars, atime, RATE_LIMIT, searchCache, abarcode,
                   aresult, acur, aretries, aresp, acall, aoutcome, ancalls, nmalformed>>

\* the response has been sent; the worker is free again
AppFinish(p) ==
    /\ apc[p] = "done"
    /\ apc' = [apc EXCEPT ![p] = "idle"]
    /\ abarcode' = [abarcode EXCEPT ![p] = <<>>]
    /\ aresult' = [aresult EXCEPT ![p] = <<>>]
    /\ acur' = [acur EXCEPT ![p] = 0]
    /\ aretries' = [aretries EXCEPT ![p] = 0]
    /\ awake' = [awake EXCEPT ![p] = 0]
    /\ aresp' = [aresp EXCEPT ![p] = NoResp]
    /\ acall' = [acall EXCEPT ![p] = NoTime]
    /\ aoutcome' = [aoutcome EXCEPT ![p] = NoOutcome]
    /\ ancalls' = [ancalls EXCEPT ![p] = 0]
    /\ UNCHANGED <<vvars, ovars, xvars, atime, RATE_LIMIT, searchCache, nmalformed>>

ANext ==
    \/ AppTick
    \/ \E p \in Workers, b \in AppInputs : AppLookup(p, b)
    \/ \E p \in Workers : AppSearch(p)
    \/ \E p \in Workers : AppRequest(p)
    \/ \E p \in Workers, o \in HttpOutcomes, h \in HeaderChoices,
          ra \in RetryAfterChoices : AppResponse(p, o, h, ra)
    \/ \E p \in Workers : AppWake(p)
    \/ \E p \in Workers : AppFinish(p)

(* ------------------------------------------------------------------ *)
(* Specifications                                                      *)
(* ------------------------------------------------------------------ *)
vars == <<vvars, ovars, avars, xvars>>

VInit ==
    /\ vraw \in ValidatorInputs
    /\ vpc = "in"
    /\ vopt = NoResult
    /\ vapp = NoResult

VIdle ==
    /\ vraw = <<>>
    /\ vpc = "off"
    /\ vopt = NoResult
    /\ vapp = NoResult

\* both validators applied to the raw string
VValidate ==
    /\ vpc = "in"
    /\ vopt' = validate(vraw)
    /\ vapp' = validate_upc(vraw)
    /\ vpc' = "out"
    /\ UNCHANGED <<vraw, ovars, avars, xvars>>

\* the next raw string arrives
VNewInput ==
    /\ vpc = "out"
    /\ vraw' \in ValidatorInputs
    /\ vpc' = "in"
    /\ vopt' = NoResult
    /\ vapp' = NoResult
    /\ UNCHANGED <<ovars, avars, xvars>>

VNext == VValidate \/ VNewInput

(* ------------------------------------------------------------------ *)
(* src/app.py: the cart and the purchase orders                        *)
(* ------------------------------------------------------------------ *)
MaxOrders == 2     \* orders created in one run
MaxQuantity == 3   \* largest quantity a cart line reaches

\* the barcodes and quantities the cart requests carry
CartBarcodes == {LocalBarcode, ExternalBarcode}
Quantities == {-1, 0, 1, 2}

NoItems == [b \in {} |-> 0]

\* no order has been built
NoOrder == [order_number |-> <<>>, items |-> NoItems]

\* generate_order_number: "PO-" and datetime.now() formatted with
\* %Y%m%d%H%M%S, that is the clock cut to its second
generate_order_number(t) == <<"PO", t>>

\* d[k] = v for a Python dict
DictSet(d, k, v) == [x \in DOMAIN d \cup {k} |-> IF x = k THEN v ELSE d[x]]

\* del d[k]
DictDel(d, k) == [x \in DOMAIN d \ {k} |-> d[x]]

\* POST /cart/add
AddToCart(b, q) ==
    /\ IF b \in DOMAIN CART_ITEMS
       THEN /\ CART_ITEMS[b].quantity + q <= MaxQuantity
            /\ CART_ITEMS[b].quantity + q >= 0 - MaxQuantity
            /\ CART_ITEMS' = [CART_ITEMS EXCEPT ![b].quantity = @ + q]
       ELSE IF b \notin INVENTORY
       THEN UNCHANGED CART_ITEMS
       ELSE LET product == CHOOSE r \in CatalogRows : r.barcode = b IN
            CART_ITEMS' = DictSet(CART_ITEMS, b,
                              [name |-> product.name, price |-> product.price,
                               quantity |-> q])
    /\ UNCHANGED <<vvars, ovars, avars, PURCHASE_ORDERS, orderLog,
                   order_pc, order_built, pricevars, titlevars>>

\* PUT /cart/update
UpdateCartItem(b, q) ==
    /\ IF b \notin DOMAIN CART_ITEMS
       THEN UNCHANGED CART_ITEMS
       ELSE IF q <= 0
       THEN CART_ITEMS' = DictDel(CART_ITEMS, b)
       ELSE CART_ITEMS' = [CART_ITEMS EXCEPT ![b].quantity = q]
    /\ UNCHANGED <<vvars, ovars, avars, PURCHASE_ORDERS, orderLog,
                   order_pc, order_built, pricevars, titlevars>>

\* POST /cart/clear
ClearCart ==
    /\ CART_ITEMS' = NoItems
    /\ UNCHANGED <<vvars, ovars, avars, PURCHASE_ORDERS, orderLog,
                   order_pc, order_built, pricevars, titlevars>>

\* POST /order/create; the order keeps the cart's lines (its totals are
\* computed from them), orderLog records the order the response carries
CreateOrder ==
    /\ Len(orderLog) < MaxOrders
    /\ IF DOMAIN CART_ITEMS = {}
       THEN UNCHANGED <<CART_ITEMS, PURCHASE_ORDERS, orderLog>>
       ELSE LET order_number == generate_order_number(atime)
                order == [order_number |-> order_number, items |-> CART_ITEMS]
            IN  /\ PURCHASE_ORDERS' = DictSet(PURCHASE_ORDERS, order_number, order)
                /\ CART_ITEMS' = NoItems
                /\ orderLog' = Append(orderLog, order)
    /\ UNCHANGED <<vvars, ovars, avars, order_pc, order_built, pricevars, titlevars>>

\* create_order served by one thread while other threads serve their own
\* requests: its statements in three steps.  Lines 276-293: the empty cart
\* is answered 400, otherwise the order is built from the cart as it is
CreateOrderBuild ==
    /\ order_pc = "idle"
    /\ Len(orderLog) < MaxOrders
    /\ IF DOMAIN CART_ITEMS = {}
       THEN UNCHANGED <<order_pc, order_built>>
       ELSE /\ order_built' = [order_number |-> generate_order_number(atime),
                               items |-> CART_ITEMS]
            /\ order_pc' = "built"
    /\ UNCHANGED <<vvars, ovars, avars, CART_ITEMS, PURCHASE_ORDERS, orderLog,
                   pricevars, titlevars>>

\* line 295: PURCHASE_ORDERS[order_number] = order
CreateOrderStore ==
    /\ order_pc = "built"
    /\ PURCHASE_ORDERS' = DictSet(PURCHASE_ORDERS, order_built.order_number, order_built)
    /\ order_pc' = "stored"
    /\ UNCHANGED <<vvars, ovars, avars, CART_ITEMS, orderLog, order_built,
                   pricevars, titlevars>>

\* lines 296-301: CART_ITEMS.clear() and the response
CreateOrderClear ==
    /\ order_pc = "stored"
    /\ CART_ITEMS' = NoItems
    /\ orderLog' = Append(orderLog, order_built)
    /\ order_pc' = "idle"
    /\ order_built' = NoOrder
    /\ UNCHANGED <<vvars, ovars, avars, PURCHASE_ORDERS, pricevars, titlevars>>

\* create_order in steps, with cart/add requests of other threads between
RNext ==
    \/ \E b \in CartBarcodes, q \in Quantities : AddToCart(b, q)
    \/ CreateOrderBuild
    \/ CreateOrderStore
    \/ CreateOrderClear

\* GET /order/<order_number>
get_order(orders, order_number) ==
    IF order_number \in DOMAIN orders
    THEN [status |-> 200, order |-> orders[order_number]]
    ELSE [status |-> 404, order |-> <<>>]

XNext ==
    \/ AppTick
    \/ \E b \in CartBarcodes, q \in Quantities : AddToCart(b, q)
    \/ \E b \in CartBarcodes, q \in Quantities : UpdateCartItem(b, q)
    \/ ClearCart
    \/ CreateOrder

(* ------------------------------------------------------------------ *)
(* src/optimized-flask-app.py: PriceConverter.to_decimal               *)
(* ------------------------------------------------------------------ *)
MaxPriceLen == 3   \* longest price text converted

PriceChars == {"$", "1", "5", ".", "a"}

\* the texts of at most MaxPriceLen characters
PriceInputs == UNION { [1..n -> PriceChars] : n \in 0..MaxPriceLen }

\* re.sub(r'[^\d.]', '', price_str)
RECURSIVE CleanPrice(_)
CleanPrice(s) ==
    IF s = <<>> THEN <<>>
    ELSE IF Head(s) \in DecDigits \cup {"."} THEN <<Head(s)>> \o CleanPrice(Tail(s))
         ELSE CleanPrice(Tail(s))

\* the number of decimal points in a text
RECURSIVE DotCount(_)
DotCount(s) ==
    IF s = <<>> THEN 0
    ELSE (IF Head(s) = "." THEN 1 ELSE 0) + DotCount(Tail(s))

\* the digits of a text as one integer
RECURSIVE DigitsValue(_, _)
DigitsValue(s, acc) ==
    IF s = <<>> THEN acc
    ELSE IF Head(s) = "." THEN DigitsValue(Tail(s), acc)
         ELSE DigitsValue(Tail(s), 10 * acc + DigitVal(Head(s)))

\* the digits behind the decimal point of a text with one point
FractionLen(s) == Len(s) - (CHOOSE i \in 1..Len(s) : s[i] = ".")

\* Decimal(cleaned) accepts digits with at most one point and at least one
\* digit; anything else raises decimal.InvalidOperation
DecimalAccepts(s) == DotCount(s) <= 1 /\ Len(s) - DotCount(s) >= 1

\* PriceConverter.to_decimal: InvalidOperation is an ArithmeticError, which
\* `except (ValueError, TypeError)` lets through
to_decimal(s) ==
    IF s = <<>> THEN [raised |-> FALSE, coefficient |-> 0, exponent |-> 0]
    ELSE LET cleaned == CleanPrice(s) IN
         IF ~DecimalAccepts(cleaned)
         THEN [raised |-> TRUE, coefficient |-> 0, exponent |-> 0]
         ELSE [raised |-> FALSE,
               coefficient |-> DigitsValue(cleaned, 0),
               exponent |-> IF DotCount(cleaned) = 1 THEN 0 - FractionLen(cleaned) ELSE 0]

\* to_decimal runs on the text at hand
PriceConvert ==
    /\ price_pc = "in"
    /\ price_out' = to_decimal(price_str)
    /\ price_pc' = "out"
    /\ UNCHANGED <<vvars, ovars, avars, cartvars, titlevars, price_str>>

\* the next text arrives
PriceNewInput ==
    /\ price_pc = "out"
    /\ price_str' \in PriceInputs
    /\ price_pc' = "in"
    /\ price_out' = NoPrice
    /\ UNCHANGED <<vvars, ovars, avars, cartvars, titlevars>>

PNext == PriceConvert \/ PriceNewInput

(* ------------------------------------------------------------------ *)
(* The display name of an external product (both applications)         *)
(* ------------------------------------------------------------------ *)
\* A title is taken as its words: the text is the words joined by single
\* spaces.  A word removed from the text leaves Blank between the spaces
\* of its neighbours.
MaxTitleLen == 4   \* most words of a title

Blank == ""

TitleWords == {"Grey", "Goose", "Vodka", "gin", "750ml", "1L"}

\* the words r'\d+(\.\d+)?\s*(ml|ML|L|oz|OZ|cl|CL)' matches
SizeWords == {"750ml", "1L"}

\* liquor_types of src/app.py, in its order, as far as TitleWords has them
liquor_types == <<"Vodka", "Gin">>

\* the words rf'\b{ltype}\b' matches under re.IGNORECASE
TypeWords(ltype) ==
    IF ltype = "Vodka" THEN {"Vodka"} ELSE IF ltype = "Gin" THEN {"gin"} ELSE {}

Titles == UNION { [1..n -> TitleWords] : n \in 0..MaxTitleLen }

HasWord(s, W) == \E i \in 1..Len(s) : s[i] \in W

\* re.search(...).group(0): the leftmost match
FirstWord(s, W) ==
    s[CHOOSE i \in 1..Len(s) : s[i] \in W /\ \A j \in 1..(i - 1) : s[j] \notin W]

\* str.replace(w, '') and re.sub(pattern, '', name): every match goes
WithoutWords(s, W) == [i \in 1..Len(s) |-> IF s[i] \in W THEN Blank ELSE s[i]]

RECURSIVE StripLeft(_)
StripLeft(s) ==
    IF s = <<>> THEN <<>>
    ELSE IF Head(s) = Blank THEN StripLeft(Tail(s)) ELSE s

RECURSIVE StripRight(_)
StripRight(s) ==
    IF s = <<>> THEN <<>>
    ELSE IF s[Len(s)] = Blank THEN StripRight(SubSeq(s, 1, Len(s) - 1)) ELSE s

\* str.strip()
PyStrip(s) == StripRight(StripLeft(s))

\* a display name: whether it starts with the decorative prefix, and the
\* words behind it, joined by single spaces
Display(prefix, words) == [prefix |-> prefix, words |-> words]

\* format_product_name of src/app.py (lines 84-97)
format_product_name(name, product_type, size) ==
    LET parts == (IF name # <<>> THEN PyStrip(name) ELSE <<>>)
                 \o (IF product_type # Blank THEN <<product_type>> ELSE <<>>)
                 \o (IF size # Blank THEN <<"-", size>> ELSE <<>>)
    IN  IF name = <<>> /\ product_type = Blank /\ size = Blank
        THEN Display(FALSE, <<>>)
        ELSE Display(TRUE, parts)

\* lines 401-428 of _search_upcitemdb: the size goes first, then the first
\* type of the list the rest of the name has
SearchTitle(t) ==
    LET size == IF HasWord(t, SizeWords) THEN FirstWord(t, SizeWords) ELSE Blank
        name1 == IF size # Blank THEN PyStrip(WithoutWords(t, {size})) ELSE t
        found == { k \in 1..Len(liquor_types) : HasWord(name1, TypeWords(liquor_types[k])) }
        product_type == IF found = {} THEN Blank
                        ELSE liquor_types[CHOOSE k \in found : \A m \in found : k <= m]
        name2 == IF product_type # Blank
                 THEN PyStrip(WithoutWords(name1, TypeWords(product_type)))
                 ELSE name1
    IN  [size |-> size, category |-> product_type, name |-> name2,
         display |-> format_product_name(name2, product_type, size)]

\* the types next(...) can yield for a title: liquor_types is a set there,
\* so any type the title has may come first
TypeChoices(t) ==
    LET found == { liquor_types[k] : k \in { m \in 1..Len(liquor_types) :
                                               HasWord(t, TypeWords(liquor_types[m])) } }
    IN  IF found = {} THEN {Blank} ELSE found

\* the name format_external_product builds (lines 264-296) when next(...)
\* yields product_type
ExternalTitle(t, product_type) ==
    LET size == IF HasWord(t, SizeWords) THEN FirstWord(t, SizeWords) ELSE Blank
        name1 == IF product_type # Blank
                 THEN PyStrip(WithoutWords(t, TypeWords(product_type)))
                 ELSE t
        name2 == IF size # Blank THEN PyStrip(WithoutWords(name1, {size})) ELSE name1
        parts == (IF name2 # <<>> THEN name2 ELSE <<>>)
                 \o (IF product_type # Blank THEN <<product_type>> ELSE <<>>)
                 \o (IF size # Blank THEN <<size>> ELSE <<>>)
    IN  [size |-> size, category |-> product_type, name |-> name2,
         display |-> Display(TRUE, parts)]

NoParsed == [size |-> Blank, category |-> Blank, name |-> <<>>,
             display |-> Display(FALSE, <<>>)]

\* nothing has been formatted yet
NoTitle == [app |-> NoParsed, opt |-> NoParsed]

\* both applications format the title at hand
TitleFormat ==
    /\ title_pc = "in"
    /\ \E product_type \in TypeChoices(title) :
          title_out' = [app |-> SearchTitle(title),
                        opt |-> ExternalTitle(title, product_type)]
    /\ title_pc' = "out"
    /\ UNCHANGED <<vvars, ovars, avars, cartvars, pricevars, title>>

\* the next title arrives
TitleNewInput ==
    /\ title_pc = "out"
    /\ title' \in Titles
    /\ title_pc' = "in"
    /\ title_out' = NoTitle
    /\ UNCHANGED <<vvars, ovars, avars, cartvars, pricevars>>

TNext == TitleFormat \/ TitleNewInput

\* the validators alone, on every input of ValidatorInputs
OConfig == rate_limit = RateLimit /\ period = PeriodSecs

\* an empty cart, no orders, no request under way
CartIdle ==
    /\ CART_ITEMS = NoItems
    /\ PURCHASE_ORDERS = NoItems
    /\ orderLog = <<>>
    /\ order_pc = "idle"
    /\ order_built = NoOrder

\* no price under conversion
PriceIdle ==
    /\ price_str = <<>>
    /\ price_pc = "off"
    /\ price_out = NoPrice

\* no title under formatting
TitleIdle ==
    /\ title = <<>>
    /\ title_pc = "off"
    /\ title_out = NoTitle

XIdle == CartIdle /\ PriceIdle /\ TitleIdle

ValidateInit == VInit /\ OInit /\ OConfig /\ AInit /\ XIdle

SpecValidate == ValidateInit /\ [][VNext]_vars

\* RATE_LIMITER = RateLimiter(rate_limit, period), line 54
Init == VIdle /\ OInit /\ OConfig /\ AInit /\ XIdle

\* a limiter constructed with the test configuration
LInit == VIdle /\ OInit /\ AInit /\ XIdle /\ rate_limit = TestRateLimit /\ period = TestPeriodSecs

Next == ONext

\* the lookup service of src/optimized-flask-app.py
Spec == Init /\ [][Next]_vars

\* the rate limiter alone, called by concurrent threads
SpecLimiter == LInit /\ [][LNext]_vars

(* ---- the response cache under the lookups of one request thread ---- *)
CacheTestRateLimit == 4  \* rate_limit of the limiter of the cache run
CacheWorker == "w1"

CInit == VIdle /\ OInit /\ AInit /\ XIdle
         /\ rate_limit = CacheTestRateLimit /\ period = PeriodSecs

CNext ==
    \/ Tick
    \/ \E b \in LookupInputs : StartLookup(CacheWorker, b)
    \/ CacheCheck(CacheWorker)
    \/ CacheGet(CacheWorker)
    \/ ReadNow(CacheWorker)
    \/ AcquireLock(CacheWorker)
    \/ CheckRateLimit(CacheWorker)
    \/ LocalLookup(CacheWorker)
    \/ \E o \in FetchOutcomes, ra \in RetryAfterValues : FetchReturn(CacheWorker, o, ra)
    \/ Finish(CacheWorker)

SpecCache == CInit /\ [][CNext]_vars

\* the lookup service of src/app.py
SpecApp == Init /\ [][ANext]_vars

(* ---- one request thread of src/app.py, watched over a long time ---- *)
FetchMaxClock == 21  \* last second of the clock of the single fetch
FetchWorker == "w1"

FetchTick ==
    /\ atime < FetchMaxClock
    /\ atime' = atime + 1
    /\ UNCHANGED <<vvars, ovars, xvars, alookvars>>

FNext ==
    \/ FetchTick
    \/ \E b \in AppInputs : AppLookup(FetchWorker, b)
    \/ AppSearch(FetchWorker)
    \/ AppRequest(FetchWorker)
    \/ \E o \in HttpOutcomes, h \in HeaderChoices, ra \in RetryAfterChoices :
          AppResponse(FetchWorker, o, h, ra)
    \/ AppWake(FetchWorker)
    \/ AppFinish(FetchWorker)

\* the lookups of src/app.py served by one thread
SpecFetch == Init /\ [][FNext]_vars

(* ---- src/app.py with a short error streak and a short reset window ---- *)
TestMaxErrors == 2       \* RATE_LIMIT['max_errors'] of the guard run
TestErrorResetSecs == 3  \* RATE_LIMIT['error_reset'] of the guard run, seconds

\* a fresh server, or one that has counted all but one error of a streak
\* for a response received just now
GInit ==
    /\ VIdle /\ OInit /\ OConfig /\ AWorkersInit /\ XIdle
    /\ RATE_LIMIT \in { RateLimitDict(DatetimeMin, 0, TestMaxErrors, TestErrorResetSecs),
                        RateLimitDict(0, TestMaxErrors - 1, TestMaxErrors, TestErrorResetSecs) }

SpecGuard == GInit /\ [][ANext]_vars

(* ---- the cart and the orders of src/app.py alone ---- *)
SpecOrders == Init /\ [][XNext]_vars

(* ---- create_order beside concurrent cart/add requests ---- *)
SpecOrderRace == Init /\ [][RNext]_vars

(* ---- to_decimal alone, on every text of PriceInputs ---- *)
PInit ==
    /\ VIdle /\ OInit /\ OConfig /\ AInit /\ CartIdle /\ TitleIdle
    /\ price_str \in PriceInputs
    /\ price_pc = "in"
    /\ price_out = NoPrice

SpecPrice == PInit /\ [][PNext]_vars

(* ---- one request thread of each application, each serving a burst ---- *)
(* ---- of requests within one tick of its clock (a thread that      ---- *)
(* ---- sleeps before a retry stays asleep)                          ---- *)
BothNext ==
    \/ \E b \in LookupInputs : StartLookup(CacheWorker, b)
    \/ CacheCheck(CacheWorker)
    \/ CacheGet(CacheWorker)
    \/ ReadNow(CacheWorker)
    \/ AcquireLock(CacheWorker)
    \/ CheckRateLimit(CacheWorker)
    \/ LocalLookup(CacheWorker)
    \/ \E o \in FetchOutcomes, ra \in RetryAfterValues : FetchReturn(CacheWorker, o, ra)
    \/ Finish(CacheWorker)
    \/ \E b \in AppInputs : AppLookup(FetchWorker, b)
    \/ AppSearch(FetchWorker)
    \/ AppRequest(FetchWorker)
    \/ \E o \in HttpOutcomes, h \in HeaderChoices, ra \in RetryAfterChoices :
          AppResponse(FetchWorker, o, h, ra)
    \/ AppFinish(FetchWorker)

SpecBoth == Init /\ [][BothNext]_vars

(* ---- the display name alone, on every title of Titles ---- *)
TInit ==
    /\ VIdle /\ OInit /\ OConfig /\ AInit /\ CartIdle /\ PriceIdle
    /\ title \in Titles
    /\ title_pc = "in"
    /\ title_out = NoTitle

SpecTitle == TInit /\ [][TNext]_vars

(* ------------------------------------------------------------------ *)
(* Claims about the validators (SpecValidate)                          *)
(* ------------------------------------------------------------------ *)
IsDec12(s) == Len(s) = 12 /\ \A i \in 1..12 : s[i] \in DecDigits

\* the check digit as the claim words it, counted from the left
LeftCheckDigit(d) ==
    LET odd == DigitVal(d[1]) + DigitVal(d[3]) + DigitVal(d[5]) + DigitVal(d[7])
                 + DigitVal(d[9]) + DigitVal(d[11])
        even == DigitVal(d[2]) + DigitVal(d[4]) + DigitVal(d[6]) + DigitVal(d[8])
                 + DigitVal(d[10])
    IN (10 - ((3 * odd + even) % 10)) % 10

\* C1: a string of 12 decimal digits is accepted by both validators exactly
\* when the check digit computed from the left (3 x digits 1,3,..,11 plus
\* digits 2,4,..,10) equals the 12th digit; otherwise it is rejected with the
\* checksum failure.
C1_ChecksumIff ==
    (vpc = "out" /\ IsDec12(vraw)) =>
        /\ vopt.ok <=> (LeftCheckDigit(vraw) = DigitVal(vraw[12]))
        /\ vapp.ok <=> (LeftCheckDigit(vraw) = DigitVal(vraw[12]))
        /\ vopt.ok => vopt.barcode = vraw
        /\ vapp.ok => vapp.barcode = vraw
        /\ ~vopt.ok => vopt.msg = MsgChecksum
        /\ ~vapp.ok => vapp.msg = MsgChecksum

C1_Witness ==
    /\ vpc = "out" /\ IsDec12(vraw)
    /\ vraw[1] = "3" /\ vraw[2] = "7"
    /\ vopt.ok /\ vapp.ok

\* what the claim of C2 calls the stripped form: spaces and hyphens removed
RECURSIVE StripSpaceHyphen(_)
StripSpaceHyphen(s) ==
    IF s = <<>> THEN <<>>
    ELSE IF Head(s) \in {" ", "-"} THEN StripSpaceHyphen(Tail(s))
         ELSE <<Head(s)>> \o StripSpaceHyphen(Tail(s))

\* C2: a raw input whose form without spaces and hyphens is a (non-empty)
\* digit string is rejected with the length error unless that form has 8, 12
\* or 13 characters, and with 8 or 13 characters it is accepted without a
\* checksum and the stripped string is returned.
C2_LengthRule ==
    LET st == StripSpaceHyphen(vraw) IN
    (vpc = "out" /\ IsDigitStr(st)) =>
        /\ Len(st) \notin {8, 12, 13} =>
              /\ vopt = Rejected(MsgLength)
              /\ vapp = Rejected(MsgLength)
        /\ Len(st) \in {8, 13} =>
              /\ vopt = Accepted(st)
              /\ vapp = Accepted(st)
        /\ Len(st) = 12 => (vopt.msg # MsgLength /\ vapp.msg # MsgLength)

C2_Witness ==
    /\ vpc = "out"
    /\ vraw = <<"1", "2", " ", "3", "4", "5", "-", "6", "7", "8">>
    /\ vopt = Accepted(<<"1", "2", "3", "4", "5", "6", "7", "8">>)

PyWhitespace == {" ", "\t"}

\* C3: every raw input that is empty or made of whitespace only is rejected
\* with the 'Barcode cannot be empty' outcome.
C3_EmptyOrWhitespace ==
    (vpc = "out" /\ \A i \in 1..Len(vraw) : vraw[i] \in PyWhitespace) =>
        /\ vopt = Rejected(MsgEmpty)
        /\ vapp = Rejected(MsgEmpty)

(* ------------------------------------------------------------------ *)
(* Claims about the lookup of src/optimized-flask-app.py (Spec)        *)
(* ------------------------------------------------------------------ *)
\* the request of worker p is for a valid barcode the catalog pool holds now
LocalRequest(p) ==
    /\ validate(barcode[p]).ok
    /\ InventoryHas(INVENTORY_CACHE, validate(barcode[p]).barcode, clock)

\* C4: a finished lookup of a valid barcode that the local catalog holds has
\* been answered with the local product (external = false), never with a
\* rate-limit denial, and has consumed no rate-limiter admission.
C4_LocalBeforeRateLimit ==
    \A p \in Workers :
        (pc[p] = "done" /\ LocalRequest(p)) =>
            /\ resp[p].status = 200
            /\ resp[p].body.found /\ ~resp[p].body.external
            /\ resp[p].body.kind # "rate_limit"
            /\ ~admitted[p]

\* C5: every key of the response cache is a normalized barcode: a digit
\* string free of spaces and hyphens.
C5_CacheKeysNormalized ==
    \A k \in CacheKeys(PRODUCT_CACHE) : k = Strip(k) /\ IsDigitStr(k)

\* C5, the consequence: a request that went past the cache check was for a
\* barcode of which the cache holds no entry.
C5_NormalizedHit ==
    \A p \in Workers :
        pc[p] \in {"rl_now", "rl_lock", "rl_body"} =>
            \A k \in CacheKeys(PRODUCT_CACHE) : Strip(k) # result[p]

\* C8: a request has issued at most one external call, and none unless the
\* rate limiter admitted that same request; so the external calls of the
\* requests in progress never outnumber the admissions granted to them.
C8_CallsWithinAdmissions ==
    \A p \in Workers :
        /\ calls[p] <= (IF admitted[p] THEN 1 ELSE 0)
        /\ pc[p] = "await" => (admitted[p] /\ calls[p] = 1)

\* two concurrent lookups of the same unseen barcode both wait on the service
C8_Witness ==
    /\ \A p \in Workers :
          /\ pc[p] = "await"
          /\ result[p] = ExternalBarcode
          /\ admitted[p]
    /\ ExternalBarcode \notin CacheKeys(PRODUCT_CACHE)

\* C9: the rate-limiter lock is held only inside is_allowed's critical
\* section: never by a request that waits on the external service (or is at
\* any other point of the lookup), so a waiting request cannot keep another
\* request's admission check from completing.
C9_NoLockAcrossFetch ==
    /\ \A p \in Workers : pc[p] = "await" => lock # p
    /\ lock # NoOwner => pc[lock] = "rl_body"
    /\ \A p \in Workers :
          (pc[p] = "rl_lock" /\ \A q \in Workers \ {p} : pc[q] \in {"await", "idle", "done"})
              => ENABLED AcquireLock(p)

\* one request waits on the service while another is inside its admission check
C9_Witness ==
    \E p \in Workers, q \in Workers :
        /\ p # q
        /\ pc[p] = "await"
        /\ pc[q] = "rl_body" /\ lock = q

(* ------------------------------------------------------------------ *)
(* Claims about RateLimiter (SpecLimiter)                              *)
(* ------------------------------------------------------------------ *)
\* admissions whose timestamp lies in the trailing interval (t - Period, t]
AdmittedIn(t) ==
    { i \in 1..Len(admitLog) : t - Period < admitLog[i] /\ admitLog[i] <= t }

\* C6: in no trailing interval of one period lie the timestamps of more than
\* rate_limit admitted calls, and the stored list never holds more than
\* rate_limit entries.
C6_AdmissionBound ==
    /\ \A t \in 0..TestMaxClock : Cardinality(AdmittedIn(t)) <= rate_limit
    /\ Len(requests) <= rate_limit

SeqMin(q) == CHOOSE x \in { q[i] : i \in 1..Len(q) } : \A j \in 1..Len(q) : x <= q[j]

\* C7: a denial carries the wait floor(oldest remaining timestamp + period
\* - now) in seconds, and that wait lies between 0 and the period.
C7_WaitTime ==
    [][ \A p \in Workers :
          (pc[p] = "rl_body" /\ pc'[p] = "done") =>
              /\ resp'[p].body.retry_after =
                    (SeqMin(requests') + Period - now[p]) \div TicksPerSec
              /\ resp'[p].body.retry_after >= 0
              /\ resp'[p].body.retry_after <= period ]_vars

(* ------------------------------------------------------------------ *)
(* Claims about the lookup of src/app.py (SpecApp)                     *)
(* ------------------------------------------------------------------ *)
\* C10: whenever a request starts a network call, the latest network call of
\* every other request was started at least the current cooldown earlier.
C10_MinCooldownBetweenCalls ==
    [][ \A p \in Workers :
          (apc[p] = "attempt" /\ apc'[p] = "http") =>
              \A q \in Workers \ {p} :
                  acall[q] # NoTime => atime - acall[q] >= RATE_LIMIT.cooldown ]_vars

\* C11: when a fetch finishes, RATE_LIMIT['last_request'] is not earlier than
\* the start of the last network call of that fetch, however the call ended.
C11_LastRequestTracksAttempts ==
    [][ \A p \in Workers :
          (apc[p] = "http" /\ apc'[p] = "done") =>
              RATE_LIMIT'.last_request >= acall[p] ]_vars

FailedAttempt(p) == apc[p] = "http" /\ apc'[p] # "http"
                    /\ aoutcome'[p].kind \in {"timeout", "connerror", "http500"}

\* C13: a fetch issues at most 3 (max_retries) network calls; after the k-th
\* failed attempt, k < 3, it sleeps 2^k seconds and tries again; after the
\* 3rd it returns the timeout (or api_error) result at once, so a fetch that
\* only saw timeouts has made exactly 3 calls; a 400 or 429 response ends the
\* fetch without another call.
C13_BoundedRetries ==
    [][ \A p \in Workers :
          /\ ancalls[p] <= 3
          /\ (FailedAttempt(p) /\ ancalls[p] < 3) =>
                /\ apc'[p] = "sleep"
                /\ awake'[p] = atime + 2 ^ ancalls[p]
          /\ (apc[p] = "sleep" /\ apc'[p] # "sleep") =>
                /\ apc'[p] = "attempt"
                /\ atime >= awake[p]
          /\ (FailedAttempt(p) /\ ancalls[p] >= 3) =>
                /\ ancalls[p] = 3
                /\ apc'[p] = "done"
                /\ aresp'[p].status # 0
                /\ aresp'[p].body.kind =
                      (IF aoutcome'[p].kind = "timeout" THEN "timeout" ELSE "api_error")
          /\ (apc[p] = "http" /\ apc'[p] # "http"
                /\ aoutcome'[p].kind \in {"http400", "http429"}) =>
                /\ apc'[p] = "done"
                /\ aresp'[p].body.kind =
                      (IF aoutcome'[p].kind = "http400" THEN "invalid_query" ELSE "rate_limit")
          /\ apc[p] = "done" => (apc'[p] \in {"done", "idle"} /\ ancalls'[p] <= ancalls[p])
      ]_vars

\* three timeouts in a row: calls at 0, 7 and 16 s, the result at 21 s
C13_Witness ==
    \E p \in Workers :
        /\ apc[p] = "done"
        /\ aresp[p].body.kind = "timeout"
        /\ ancalls[p] = 3
        /\ acur[p] = 0 /\ acall[p] = 16 /\ atime = 21

(* ------------------------------------------------------------------ *)
(* Claims about the error-streak guard of src/app.py (SpecGuard)       *)
(* ------------------------------------------------------------------ *)
\* max_errors errors are counted and the reset window since the last request
\* has not elapsed
StreakActive ==
    /\ RATE_LIMIT.error_count >= RATE_LIMIT.max_errors
    /\ atime - RATE_LIMIT.last_request < RATE_LIMIT.error_reset

\* a lookup of a well-formed barcode arrives at worker p in this step
LookupArrives(p) ==
    apc[p] = "idle" /\ apc'[p] # "idle" /\ validate_upc(abarcode'[p]).ok

\* C14, for the lookups that arrive: while the streak is active a lookup is
\* answered 429 rate_limit at once; the counter goes back to 0 only when the
\* window has elapsed since the last request, and a lookup that arrives then
\* finds the counter at 0.
C14_ArrivingLookupsDenied ==
    [][ /\ \A p \in Workers :
             (StreakActive /\ LookupArrives(p)) =>
                 /\ apc'[p] = "done"
                 /\ aresp'[p].status = 429
                 /\ aresp'[p].body.kind = "rate_limit"
                 /\ aresp'[p].body.retry_after > 0
        /\ (RATE_LIMIT.error_count > 0 /\ RATE_LIMIT'.error_count = 0) =>
             atime - RATE_LIMIT.last_request > RATE_LIMIT.error_reset
        /\ \A p \in Workers :
             (LookupArrives(p) /\ atime - RATE_LIMIT.last_request > RATE_LIMIT.error_reset) =>
                 RATE_LIMIT'.error_count = 0 ]_vars

\* C14: while max_errors errors are counted and the reset window has not
\* elapsed, every lookup is denied and no request starts a network call.
C14_ErrorStreakGuard ==
    [][ StreakActive =>
          \A p \in Workers :
              /\ LookupArrives(p) => (apc'[p] = "done" /\ aresp'[p].status = 429)
              /\ ~(apc[p] = "attempt" /\ apc'[p] = "http") ]_vars

(* ------------------------------------------------------------------ *)
(* Claims about the answers of src/app.py (SpecApp, SpecFetch)         *)
(* ------------------------------------------------------------------ *)
\* C15: a lookup whose external call failed (timeout, transport failure,
\* payload of an unexpected shape) is answered in the server-error class with
\* the generic server_error body, and a lookup that ends in the outermost
\* handler raises the error count by exactly one.
C15_FailuresAreServerErrors ==
    [][ \A p \in Workers :
          /\ (apc'[p] = "done"
                /\ aoutcome'[p].kind \in {"timeout", "connerror", "malformed"}) =>
                /\ aresp'[p].status >= 500
                /\ aresp'[p].body.kind = "server_error"
          /\ (apc[p] = "http" /\ aresp'[p].status = 500) =>
                RATE_LIMIT'.error_count = RATE_LIMIT.error_count + 1 ]_vars

\* C16: a lookup of a valid barcode that the local inventory does not hold
\* and for which the external service answered without items is answered
\* with status 404 and found = false.
C16_NotFoundIs404 ==
    \A p \in Workers :
        (apc[p] = "done" /\ aresult[p] \notin INVENTORY
          /\ aoutcome[p].kind = "noitems") =>
            /\ aresp[p].status = 404
            /\ ~aresp[p].body.found

(* ------------------------------------------------------------------ *)
(* Claims about the pools of src/optimized-flask-app.py                *)
(* ------------------------------------------------------------------ *)
\* C17: the response cache never holds more than maxsize entries; a new key
\* put into a full cache removes the least recently used entry and no other;
\* a cache hit of lookup_product makes the hit entry the most recently used
\* and leaves the order of the others.
C17_LruPolicy ==
    [][ /\ Len(PRODUCT_CACHE') <= CacheMaxSize
        /\ \A k \in CacheKeys(PRODUCT_CACHE') \ CacheKeys(PRODUCT_CACHE) :
              LET kept == IF Len(PRODUCT_CACHE) >= CacheMaxSize
                          THEN Tail(PRODUCT_CACHE) ELSE PRODUCT_CACHE
              IN  /\ Len(PRODUCT_CACHE') = Len(kept) + 1
                  /\ SubSeq(PRODUCT_CACHE', 1, Len(kept)) = kept
                  /\ PRODUCT_CACHE'[Len(kept) + 1].key = k
        /\ CacheKeys(PRODUCT_CACHE') \ CacheKeys(PRODUCT_CACHE) = {} =>
              CacheKeys(PRODUCT_CACHE') = CacheKeys(PRODUCT_CACHE)
        /\ \A p \in Workers :
              (pc[p] = "cache_get" /\ pc'[p] = "done" /\ resp'[p].status = 200) =>
                  /\ PRODUCT_CACHE'[Len(PRODUCT_CACHE')].key = barcode[p]
                  /\ resp'[p].body = PRODUCT_CACHE'[Len(PRODUCT_CACHE')].val
                  /\ Len(PRODUCT_CACHE') = Len(PRODUCT_CACHE)
                  /\ SubSeq(PRODUCT_CACHE', 1, Len(PRODUCT_CACHE) - 1)
                        = SelectSeq(PRODUCT_CACHE, LAMBDA e : e.key # barcode[p])
      ]_vars

\* the cache is full, it has evicted an entry before, and a request has
\* found the least recently used key in it and is about to read it
C17_Witness ==
    /\ Len(PRODUCT_CACHE) = CacheMaxSize
    /\ CacheMaxSize >= 2
    /\ lastEvicted # NoKey
    /\ \E p \in Workers :
          /\ pc[p] = "cache_get"
          /\ barcode[p] = PRODUCT_CACHE[1].key

\* C18: no step of a lookup changes INVENTORY_CACHE, whatever its outcome, and
\* a product resolved by the external service is stored in the response
\* cache (under the request's key) and not in the catalog pool.
C18_CatalogPoolUntouched ==
    [][ /\ INVENTORY_CACHE' = INVENTORY_CACHE
        /\ \A p \in Workers :
              (pc[p] = "await" /\ pc'[p] = "done" /\ resp'[p].body.external) =>
                  /\ barcode[p] \in CacheKeys(PRODUCT_CACHE')
                  /\ CacheValue(PRODUCT_CACHE', barcode[p]) = resp'[p].body
                  /\ result[p] \notin DOMAIN INVENTORY_CACHE' ]_vars

\* an external product has been resolved and cached; the catalog pool is
\* as load_inventory left it
C18_Witness ==
    \E p \in Workers :
        /\ pc[p] = "done"
        /\ resp[p].status = 200 /\ resp[p].body.external
        /\ barcode[p] \in CacheKeys(PRODUCT_CACHE)
        /\ INVENTORY_CACHE = LoadedInventory
        /\ result[p] \notin DOMAIN INVENTORY_CACHE

\* C19: the orders create_order has answered with have pairwise distinct
\* order numbers, and get_order still returns each of them as it was created.
C19_UniqueOrderNumbers ==
    /\ \A i, j \in 1..Len(orderLog) :
          i # j => orderLog[i].order_number # orderLog[j].order_number
    /\ \A i \in 1..Len(orderLog) :
          LET r == get_order(PURCHASE_ORDERS, orderLog[i].order_number) IN
          r.status = 200 /\ r.order = orderLog[i]

\* C20: once to_decimal has run on a text whose cleaned form is no decimal
\* number (nothing left, a lone point, several points), it has raised
\* nothing and has returned zero.
C20_ToDecimalNeverRaises ==
    (price_pc = "out" /\ ~DecimalAccepts(CleanPrice(price_str))) =>
        /\ ~price_out.raised
        /\ price_out.coefficient = 0

\* the prefix and the non-empty ones of name, category, size, in that order
JoinedParts(r) ==
    Display(TRUE, r.name
                  \o (IF r.category # Blank THEN <<r.category>> ELSE <<>>)
                  \o (IF r.size # Blank THEN <<r.size>> ELSE <<>>))

ExampleTitle == <<"Grey", "Goose", "Vodka", "750ml">>

\* C21: once a title is formatted, each application's display name is the
\* prefix followed by the non-empty ones of cleaned name, category and size,
\* in that order and with nothing else between them; for the title
\* "Grey Goose Vodka 750ml" the size is "750ml", the category "Vodka", the
\* cleaned name "Grey Goose" and the display name "Grey Goose Vodka 750ml"
\* behind the prefix.
C21_DisplayName ==
    title_pc = "out" =>
        \A r \in {title_out.app, title_out.opt} :
            /\ r.display = JoinedParts(r)
            /\ title = ExampleTitle =>
                  /\ r.size = "750ml"
                  /\ r.category = "Vodka"
                  /\ r.name = <<"Grey", "Goose">>
                  /\ r.display = Display(TRUE, ExampleTitle)

\* the same statement for src/optimized-flask-app.py alone
C21_DisplayNameOptimized ==
    title_pc = "out" =>
        /\ title_out.opt.display = JoinedParts(title_out.opt)
        /\ title = ExampleTitle =>
              /\ title_out.opt.size = "750ml"
              /\ title_out.opt.category = "Vodka"
              /\ title_out.opt.name = <<"Grey", "Goose">>
              /\ title_out.opt.display = Display(TRUE, ExampleTitle)

\* the failure results of an external resolution
FailureKinds == {"rate_limit", "invalid_query", "timeout", "api_error"}

\* C22: a step that ends a lookup with a failure result leaves the cache of
\* external results as it was, and a lookup that finds its barcode in that
\* cache is never answered with a stored failure.
C22_FailuresNotCached ==
    [][ \A p \in Workers :
          /\ (apc[p] # "done" /\ apc'[p] = "done"
                              /\ aresp'[p].body.kind \in FailureKinds)
                => searchCache' = searchCache
          /\ (apc[p] = "search" /\ SearchCached(searchCache, aresult[p])
                                /\ apc'[p] = "done")
                => aresp'[p].body.kind \notin FailureKinds ]_vars

InvalidUpcResponse == Resp(400, Body("invalid_upc", FALSE, FALSE, <<>>, 0))

\* C23: in both applications a lookup whose path parameter fails validation
\* ends with the 400 invalid_upc response, and the steps that serve it leave
\* the limiter's admissions, both cache pools, the count of external calls,
\* RATE_LIMIT (cooldown, last request, error streak) and the cache of
\* external results as they were.
C23_InvalidLookupNoEffect ==
    [][ \A p \in Workers :
          /\ (pc[p] \notin {"idle", "done"} /\ pc'[p] # pc[p]
                  /\ barcode[p] \notin CacheKeys(PRODUCT_CACHE)
                  /\ ~validate(barcode[p]).ok)
                => /\ pc'[p] = "done"
                   /\ resp'[p] = InvalidUpcResponse
                   /\ UNCHANGED <<requests, admitLog, admitted, calls, lock,
                                  PRODUCT_CACHE, INVENTORY_CACHE>>
          /\ ~validate(barcode[p]).ok => barcode[p] \notin CacheKeys(PRODUCT_CACHE)
          /\ (apc[p] = "idle" /\ apc'[p] # "idle" /\ ~validate_upc(abarcode'[p]).ok)
                => /\ apc'[p] = "done"
                   /\ aresp'[p] = InvalidUpcResponse
                   /\ UNCHANGED <<RATE_LIMIT, searchCache, ancalls, acall>> ]_vars

\* both applications have answered a rejected parameter while the limiter
\* holds an admission, the response cache an entry, and RATE_LIMIT records a
\* response of the external service
C23_Witness ==
    /\ pc[CacheWorker] = "done" /\ resp[CacheWorker] = InvalidUpcResponse
    /\ requests # <<>> /\ PRODUCT_CACHE # <<>>
    /\ apc[FetchWorker] = "done" /\ aresp[FetchWorker] = InvalidUpcResponse
    /\ RATE_LIMIT.last_request # DatetimeMin
    /\ searchCache # [k \in {} |-> NoBody]

\* C24: every item in the cart has a quantity of at least 1.
C24_CartQuantitiesPositive ==
    \A b \in DOMAIN CART_ITEMS : CART_ITEMS[b].quantity >= 1

\* C25: create_order builds an order only from a non-empty cart; the order
\* it stores holds exactly the items and quantities of the cart; and when it
\* clears the cart, the cart holds nothing but what the stored order holds
\* (no item added meanwhile is dropped), and is empty afterwards.
C25_OrderTakesWholeCart ==
    [][ /\ (order_pc = "idle" /\ order_pc' = "built")
              => /\ CART_ITEMS # NoItems
                 /\ order_built'.items = CART_ITEMS
        /\ (order_pc = "built" /\ order_pc' = "stored")
              => get_order(PURCHASE_ORDERS', order_built.order_number).order = order_built
        /\ (order_pc = "stored" /\ order_pc' = "idle")
              => /\ CART_ITEMS' = NoItems
                 /\ CART_ITEMS = order_built.items ]_vars

\* C26: at every time, the catalog read of a lookup for a barcode that
\* load_inventory loaded answers with the local product (external = false)
\* and issues no external call.
C26_CatalogStaysAvailable ==
    [][ \A p \in Workers :
          (pc[p] = "local" /\ pc'[p] # "local"
                           /\ result[p] \in DOMAIN LoadedInventory)
             => /\ pc'[p] = "done"
                /\ resp'[p].status = 200
                /\ resp'[p].body.found /\ ~resp'[p].body.external
                /\ calls' = calls ]_vars

====
